---- MODULE Spec2Model ----
(***************************************************************************)
(* The SWC reader of MorphIO (src/src/readers/morphologySWC.cpp):          *)
(* readSamples over SWCTokenizer, and SWCBuilder::buildSWC with            *)
(* build_soma and assembleSections.                                        *)
(*                                                                         *)
(* Spec      runs buildSWC on a sample list (what readSamples returns).    *)
(* SpecRead  runs readSamples on a text.                                   *)
(***************************************************************************)
EXTENDS Integers, Sequences, FiniteSets, TLC

VARIABLES pc,        \* position of the load
          samples,   \* const Samples samples: the list readSamples returned
          index,     \* samples_, children_, soma_samples, root_samples
          soma,      \* morph_.soma(): type, points, diameters
          morph,     \* sections appended to morph_, declared_to_swc
          outcome,   \* "" while running, "OK", or the fatal error thrown
          contents,  \* SWCTokenizer::contents_
          pos_,      \* SWCTokenizer::pos_ (0-based)
          line_,     \* SWCTokenizer::line_
          earlier    \* samples[sample.id], as handed to ERROR_REPEATED_ID

vars == <<pc, samples, index, soma, morph, outcome, contents, pos_, line_, earlier>>

(***************************************************************************)
(* Bounds of the model.                                                    *)
(***************************************************************************)
\* the longest sample list with freely chosen types and parents; lists up
\* to this length are compared with all their reorderings, longer ones with
\* every exchange of two lines
MaxSamples == 3
\* the most neurite samples that follow a given soma
MaxExtra == 3
\* the longest text, in items, given to readSamples
MaxItems == 8

(***************************************************************************)
(* Program constants.                                                      *)
(***************************************************************************)
\* const unsigned int SWC_ROOT = 0xFFFFFFFD, as the 32-bit two's complement
\* value: the ids of the model are small and never meet it
SWC_ROOT == -3
\* morphio::SectionType, as the SWC text writes it
SECTION_SOMA == 1
SECTION_AXON == 2
SECTION_DENDRITE == 3
SECTION_OUT_OF_RANGE_START == 20

NeuriteTypes == {SECTION_AXON, SECTION_DENDRITE}
SectionTypes == {SECTION_SOMA} \cup NeuriteTypes

(***************************************************************************)
(* Helpers on sequences and maps (std::vector, std::unordered_map).        *)
(***************************************************************************)
Range(s) == {s[i] : i \in DOMAIN s}

\* operator[] / at() of a map whose key is known to be present
count(m, k) == IF k \in DOMAIN m THEN 1 ELSE 0

\* children_[parentId].push_back(id)
PushChild(children, parentId, id) ==
    IF parentId \in DOMAIN children
    THEN [children EXCEPT ![parentId] = Append(@, id)]
    ELSE (parentId :> <<id>>) @@ children

\* get_child_count of assembleSections
get_child_count(ix, child_id) ==
    IF count(ix.children_, child_id) = 0 THEN 0 ELSE Len(ix.children_[child_id])

EmptyMap == [k \in {} |-> 0]

EmptyIndex == [samples_ |-> EmptyMap, children_ |-> EmptyMap,
               soma_samples |-> <<>>, root_samples |-> <<>>, lookup |-> -1,
               error |-> ""]

(***************************************************************************)
(* buildSWC, first loop: the checks, soma_samples, root_samples, samples_  *)
(* and children_; then the pass for missing parents.                       *)
(***************************************************************************)
\* the checks of one sample that throw; "" when it passes
SampleCheck(sample) ==
    IF sample.parentId = sample.id THEN "ERROR_SELF_PARENT"
    ELSE IF sample.type >= SECTION_OUT_OF_RANGE_START \/ sample.type <= 0
    THEN "ERROR_UNSUPPORTED_SECTION_TYPE"
    ELSE ""

IsRootSample(sample) == sample.parentId = SWC_ROOT \/ sample.type = SECTION_SOMA

RECURSIVE IndexFrom(_, _, _)
IndexFrom(ss, i, ix) ==
    IF i > Len(ss) THEN ix
    ELSE LET sample == ss[i]
             chk == SampleCheck(sample)
             somas == IF sample.type = SECTION_SOMA
                      THEN Append(ix.soma_samples, sample) ELSE ix.soma_samples
             roots == IF IsRootSample(sample)
                      THEN Append(ix.root_samples, sample) ELSE ix.root_samples
         IN IF chk # "" THEN [ix EXCEPT !.error = chk]
            ELSE IF sample.id \in DOMAIN ix.samples_
            THEN [ix EXCEPT !.soma_samples = somas, !.root_samples = roots,
                            !.lookup = sample.id,
                            !.error = "ERROR_REPEATED_ID"]
            ELSE IndexFrom(ss, i + 1,
                   [samples_ |-> (sample.id :> sample) @@ ix.samples_,
                    children_ |-> PushChild(ix.children_, sample.parentId, sample.id),
                    soma_samples |-> somas,
                    root_samples |-> roots,
                    lookup |-> ix.lookup,
                    error |-> ""])

\* mutant: the parent must have been declared on an earlier line
MissingParent_Streaming(ss, ix) ==
    \E i \in DOMAIN ss :
        ss[i].parentId # SWC_ROOT /\ \A j \in 1..(i - 1) : ss[j].id # ss[i].parentId

\* mutant: the pass for missing parents left out
MissingParent_Unchecked(ss, ix) == FALSE

MissingParent(ss, ix) ==
    \E i \in DOMAIN ss : ss[i].parentId # SWC_ROOT /\ count(ix.samples_, ss[i].parentId) = 0

IndexSamples(ss) ==
    LET ix == IndexFrom(ss, 1, EmptyIndex)
    IN IF ix.error # "" THEN ix
       ELSE IF MissingParent(ss, ix) THEN [ix EXCEPT !.error = "ERROR_MISSING_PARENT"]
       ELSE ix

(***************************************************************************)
(* build_soma.                                                             *)
(***************************************************************************)
NoSoma == [type |-> "SOMA_UNDEFINED", points |-> <<>>, diameters |-> <<>>, error |-> ""]

SomaOf(type, ss) ==
    [type |-> type, points |-> [i \in DOMAIN ss |-> ss[i].point],
     diameters |-> [i \in DOMAIN ss |-> ss[i].diameter], error |-> ""]

SomaError(e) == [type |-> "SOMA_CYLINDERS", points |-> <<>>, diameters |-> <<>>, error |-> e]

\* the children of s of type SOMA, when s has more than one child
soma_bifurcations(ix, s) ==
    IF count(ix.children_, s.id) > 0 /\ Len(ix.children_[s.id]) > 1
    THEN SelectSeq(ix.children_[s.id], LAMBDA id : ix.samples_[id].type = SECTION_SOMA)
    ELSE <<>>

\* the loop of the "normal" SWC soma; the first throw wins
RECURSIVE CylinderLoop(_, _, _)
CylinderLoop(ix, i, parent_count) ==
    LET ss == ix.soma_samples IN
    IF i > Len(ss)
    THEN IF parent_count > 1 THEN "ERROR_MULTIPLE_SOMATA" ELSE ""
    ELSE LET s == ss[i] IN
         IF s.parentId # SWC_ROOT /\ count(ix.samples_, s.parentId) = 0
         THEN "ERROR_MISSING_PARENT"
         ELSE IF s.parentId # SWC_ROOT /\ ix.samples_[s.parentId].type # SECTION_SOMA
         THEN "ERROR_SOMA_WITH_NEURITE_PARENT"
         ELSE IF Len(soma_bifurcations(ix, s)) > 1
         THEN "ERROR_SOMA_BIFURCATION"
         ELSE CylinderLoop(ix, i + 1,
                           IF s.parentId = SWC_ROOT THEN parent_count + 1 ELSE parent_count)

IsThreePoint(ss) ==
    /\ Len(ss) = 3
    /\ ss[1].id = ss[2].parentId
    /\ ss[1].id = ss[3].parentId

build_soma(ix) ==
    LET ss == ix.soma_samples IN
    IF Len(ss) = 0 THEN NoSoma
    ELSE IF Len(ss) = 1
    THEN IF ss[1].parentId # SWC_ROOT /\ count(ix.samples_, ss[1].parentId) = 0
         THEN SomaError("out_of_range")     \* samples_.at throws
         ELSE IF ss[1].parentId # SWC_ROOT /\ ix.samples_[ss[1].parentId].type # SECTION_SOMA
         THEN SomaError("ERROR_SOMA_WITH_NEURITE_PARENT")
         ELSE SomaOf("SOMA_SINGLE_POINT", ss)
    ELSE IF IsThreePoint(ss)
    THEN SomaOf("SOMA_NEUROMORPHO_THREE_POINT_CYLINDERS", ss)
    ELSE LET e == CylinderLoop(ix, 1, 0)
         IN IF e # "" THEN SomaError(e) ELSE SomaOf("SOMA_CYLINDERS", ss)

(***************************************************************************)
(* assembleSections.  st is what the recursion shares: the sections        *)
(* appended to morph_ so far (in the order of the appends, each with the   *)
(* index of its parent section, 0 for a root section), declared_to_swc,    *)
(* and the error that ended the walk.  active holds the ids of the calls   *)
(* that have not returned: a call entered with an id that is active        *)
(* repeats its caller's call tree and never returns, so the recursion      *)
(* runs out of stack.                                                      *)
(***************************************************************************)
EmptyMorph == [sections |-> <<>>, declared_to_swc |-> EmptyMap, error |-> ""]

\* the while loop that combines single samples into one section; lists the
\* samples whose points are pushed, the last one being pushed after the loop
RECURSIVE CombineChain(_, _, _)
CombineChain(ix, id, chain) ==
    IF get_child_count(ix, id) = 1
       /\ ix.samples_[id].type = ix.samples_[ix.children_[id][1]].type
    THEN IF ix.children_[id][1] \in Range(chain) \cup {id}
         THEN <<>>     \* the loop never ends
         ELSE CombineChain(ix, ix.children_[id][1], Append(chain, id))
    ELSE Append(chain, id)

\* mutants: the duplicate also in front of root sections; never a duplicate
NeedsDuplicate_AlsoRoots(sample, start_point, is_root) == sample.point # start_point
NeedsDuplicate_Never(sample, start_point, is_root) == FALSE

\* create duplicate point if needed
NeedsDuplicate(sample, start_point, is_root) == ~is_root /\ sample.point # start_point

\* morph_.appendRootSection / Section::appendSection and declared_to_swc[id]
appendSection(st, sec, section_id) ==
    [st EXCEPT !.sections = Append(@, sec),
               !.declared_to_swc = (section_id :> (Len(st.sections) + 1)) @@ @]

\* mutant: the children taken last to first
RECURSIVE Reversed(_)
Reversed(q) == IF q = <<>> THEN <<>> ELSE Append(Reversed(Tail(q)), Head(q))
ChildOrder_Reversed(ix, id) ==
    IF count(ix.children_, id) = 0 THEN <<>> ELSE Reversed(ix.children_[id])

\* the order in which a section's children are assembled
ChildOrder(ix, id) == IF count(ix.children_, id) = 0 THEN <<>> ELSE ix.children_[id]

RECURSIVE assembleSections(_, _, _, _, _, _, _, _)
RECURSIVE assembleChildren(_, _, _, _, _, _, _, _)

assembleSections(ix, id, parent_id, start_point, start_diameter, is_root, st, active) ==
    IF st.error # "" THEN st
    ELSE IF id \in active THEN [st EXCEPT !.error = "STACK_OVERFLOW"]
    ELSE
    LET dup == NeedsDuplicate(ix.samples_[id], start_point, is_root)
        chain == CombineChain(ix, id, <<>>)
    IN IF chain = <<>> THEN [st EXCEPT !.error = "ENDLESS_LOOP"]
       ELSE IF ~is_root /\ count(st.declared_to_swc, parent_id) = 0
       THEN [st EXCEPT !.error = "out_of_range"]
       ELSE
       LET last == chain[Len(chain)]
           body == [i \in DOMAIN chain |-> ix.samples_[chain[i]].point]
           bodyd == [i \in DOMAIN chain |-> ix.samples_[chain[i]].diameter]
           points == IF dup THEN <<start_point>> \o body ELSE body
           diameters == IF dup THEN <<start_diameter>> \o bodyd ELSE bodyd
           sec == [points |-> points,
                   diameters |-> diameters,
                   type |-> ix.samples_[last].type,
                   is_root |-> is_root,
                   parent |-> IF is_root THEN 0 ELSE st.declared_to_swc[parent_id],
                   parent_id |-> parent_id,
                   ids |-> chain]
           st1 == appendSection(st, sec, last)
       IN assembleChildren(ix, ChildOrder(ix, last), 1, last,
                           points[Len(points)], diameters[Len(diameters)],
                           st1, active \cup {id})

\* the calls for children_.at(id), one child after the other
assembleChildren(ix, kids, k, id, new_start_point, new_start_diameter, st, active) ==
    IF k > Len(kids) \/ st.error # "" THEN st
    ELSE assembleChildren(ix, kids, k + 1, id, new_start_point, new_start_diameter,
             assembleSections(ix, kids[k], id, new_start_point, new_start_diameter,
                              FALSE, st, active),
             active)

(***************************************************************************)
(* buildSWC, the loop over root_samples.                                   *)
(***************************************************************************)
\* for (unsigned int child_id : children_.at(root_sample.id))
RECURSIVE RootChildren(_, _, _, _, _)
RootChildren(ix, sm, root_sample, k, st) ==
    LET kids == ix.children_[root_sample.id] IN
    IF k > Len(kids) \/ st.error # "" THEN st
    ELSE IF ix.samples_[kids[k]].type = SECTION_SOMA
    THEN RootChildren(ix, sm, root_sample, k + 1, st)
    ELSE IF root_sample.type = SECTION_SOMA
    THEN RootChildren(ix, sm, root_sample, k + 1,
             assembleSections(ix, kids[k], root_sample.id,
                              sm.points[1], sm.diameters[1], TRUE, st, {}))
    ELSE \* this is neurite as the start; break
         assembleSections(ix, root_sample.id, SWC_ROOT,
                          root_sample.point, root_sample.diameter, TRUE, st, {})

\* whether the root loop skips the root sample
SkipsRoot(ix, root_sample) == count(ix.children_, root_sample.id) = 0

RECURSIVE RootLoop(_, _, _, _)
RootLoop(ix, sm, r, st) ==
    IF r > Len(ix.root_samples) \/ st.error # "" THEN st
    ELSE IF SkipsRoot(ix, ix.root_samples[r])
    THEN RootLoop(ix, sm, r + 1, st)
    ELSE RootLoop(ix, sm, r + 1, RootChildren(ix, sm, ix.root_samples[r], 1, st))

AssembleRoots(ix, sm) == RootLoop(ix, sm, 1, EmptyMorph)

(***************************************************************************)
(* The whole of buildSWC on a sample list, as one result.                  *)
(***************************************************************************)
Load(ss) ==
    LET ix == IndexSamples(ss) IN
    IF ix.error # "" THEN [outcome |-> ix.error, soma |-> NoSoma, sections |-> <<>>]
    ELSE LET sm == build_soma(ix) IN
    IF sm.error # "" THEN [outcome |-> sm.error, soma |-> NoSoma, sections |-> <<>>]
    ELSE LET st == AssembleRoots(ix, sm) IN
    IF st.error # "" THEN [outcome |-> st.error, soma |-> sm, sections |-> <<>>]
    ELSE [outcome |-> "OK", soma |-> sm, sections |-> st.sections]

(***************************************************************************)
(* SWCTokenizer.  tk is the cursor: pos (0-based, as pos_) and line.  The  *)
(* text is a sequence of characters.                                       *)
(***************************************************************************)
\* std::string::npos, cut to the integers of the model
NPOS == 2147483647

Size(text) == Len(text)
CharAt(text, pos) == text[pos + 1]

done(text, tk) == tk.pos >= Size(text)

\* contents_.find_first_of(value, pos_): the first position >= pos that
\* holds value, or npos
RECURSIVE find_first_of(_, _, _)
find_first_of(text, value, pos) ==
    IF pos >= Size(text) THEN NPOS
    ELSE IF CharAt(text, pos) = value THEN pos
    ELSE find_first_of(text, value, pos + 1)

\* pos_ = contents_.size() is overwritten by pos_ = pos
skip_to(text, tk, value) == [tk EXCEPT !.pos = find_first_of(text, value, tk.pos)]

Whitespace == {" ", "\t", "\r"}

RECURSIVE find_first_not_of(_, _)
find_first_not_of(text, pos) ==
    IF pos >= Size(text) THEN NPOS
    ELSE IF CharAt(text, pos) \notin Whitespace THEN pos
    ELSE find_first_not_of(text, pos + 1)

advance_to_non_whitespace(text, tk) ==
    IF done(text, tk) THEN tk
    ELSE LET pos == find_first_not_of(text, tk.pos)
         IN [tk EXCEPT !.pos = IF pos = NPOS THEN Size(text) ELSE pos]

\* the while loop of consume_line_and_trailing_comments, tk already at a
\* non-whitespace character
RECURSIVE ConsumeLoop(_, _, _)
ConsumeLoop(text, tk, found_newline) ==
    LET at_end == done(text, tk)
        c == IF at_end THEN "" ELSE CharAt(text, tk.pos)
    IN IF c \in {"#", "\n"}
       THEN ConsumeLoop(text,
                advance_to_non_whitespace(text,
                    IF c = "#" THEN skip_to(text, tk, "\n")
                    ELSE [pos |-> tk.pos + 1, line |-> tk.line + 1]),
                found_newline \/ c = "\n")
       ELSE [tk |-> tk, found |-> found_newline \/ at_end]

consume_line_and_trailing_comments(text, tk) ==
    ConsumeLoop(text, advance_to_non_whitespace(text, tk), FALSE)

\* while (!done() && consume_line_and_trailing_comments()) {}
RECURSIVE SkipLines(_, _)
SkipAgain(text, c) == IF c.found THEN SkipLines(text, c.tk) ELSE c.tk
SkipLines(text, tk) ==
    IF done(text, tk) THEN tk
    ELSE SkipAgain(text, consume_line_and_trailing_comments(text, tk))

Digits == {"1"}
NumberStart == Digits \cup {"-", "+", "."}

\* advance_to_number after its while loop
NumberAt(text, t) ==
    IF done(text, t) THEN [tk |-> t, error |-> "EARLY_END_OF_FILE"]
    ELSE IF CharAt(text, t.pos) \in NumberStart THEN [tk |-> t, error |-> ""]
    ELSE [tk |-> t, error |-> "ERROR_LINE_NON_PARSABLE"]

advance_to_number(text, tk) == NumberAt(text, SkipLines(text, tk))

\* StringToNumber: the literal at pos is an optional sign and digits; the
\* value and the position after it
RECURSIVE DigitsEnd(_, _)
DigitsEnd(text, pos) ==
    IF pos < Size(text) /\ CharAt(text, pos) \in Digits THEN DigitsEnd(text, pos + 1) ELSE pos

RECURSIVE Magnitude(_, _, _)
Magnitude(text, from, to) ==
    IF from >= to THEN 0 ELSE 10 * Magnitude(text, from, to - 1) + 1

Literal(text, pos, from, to) ==
    [ok |-> to > from,
     value |-> IF CharAt(text, pos) = "-"
               THEN 0 - Magnitude(text, from, to) ELSE Magnitude(text, from, to),
     pos |-> to]

LiteralFrom(text, pos, from) == Literal(text, pos, from, DigitsEnd(text, from))

stn_toNumber(text, pos) ==
    LiteralFrom(text, pos, IF CharAt(text, pos) \in {"-", "+"} THEN pos + 1 ELSE pos)

\* pos_ = std::get<1>(parsed); return std::get<0>(parsed)
Parsed(a, parsed) ==
    IF ~parsed.ok THEN [tk |-> a.tk, value |-> 0, error |-> "ERROR_LINE_NON_PARSABLE"]
    ELSE [tk |-> [a.tk EXCEPT !.pos = parsed.pos], value |-> parsed.value, error |-> ""]

ParseAt(text, a) ==
    IF a.error # "" THEN [tk |-> a.tk, value |-> 0, error |-> a.error]
    ELSE Parsed(a, stn_toNumber(text, a.tk.pos))

\* read_int and read_float
read_number(text, tk) == ParseAt(text, advance_to_number(text, tk))

(***************************************************************************)
(* readSamples: one turn of its while loop.                                *)
(***************************************************************************)
SWC_UNDEFINED_PARENT == -1
FieldsPerSample == 7

\* the fields id, type, x, y, z, radius, parent, read one after the other;
\* a negative id is thrown before the type is read
RECURSIVE ReadFields(_, _, _)
FieldRead(text, vals, r) ==
    IF r.error # "" THEN [tk |-> r.tk, vals |-> vals, error |-> r.error]
    ELSE IF Len(vals) = 0 /\ r.value < 0
    THEN [tk |-> r.tk, vals |-> vals, error |-> "ERROR_NEGATIVE_ID"]
    ELSE ReadFields(text, r.tk, Append(vals, r.value))

ReadFields(text, tk, vals) ==
    IF Len(vals) = FieldsPerSample THEN [tk |-> tk, vals |-> vals, error |-> ""]
    ELSE FieldRead(text, vals, read_number(text, tk))

\* the end of the record and samples.push_back(sample)
RecordEnd(vals, lineNumber, c) ==
    IF ~c.found THEN [tk |-> c.tk, sample |-> <<>>, error |-> "ERROR_LINE_NON_PARSABLE"]
    ELSE [tk |-> c.tk,
          sample |-> [id |-> vals[1], type |-> vals[2],
                      point |-> <<vals[3], vals[4], vals[5]>>,
                      diameter |-> 2 * vals[6],
                      parentId |-> IF vals[7] = SWC_UNDEFINED_PARENT THEN SWC_ROOT ELSE vals[7],
                      lineNumber |-> lineNumber],
          error |-> ""]

SampleOf(text, lineNumber, f) ==
    IF f.error # "" THEN [tk |-> f.tk, sample |-> <<>>, error |-> f.error]
    ELSE IF f.vals[7] < SWC_UNDEFINED_PARENT
    THEN [tk |-> f.tk, sample |-> <<>>, error |-> "ERROR_NEGATIVE_ID"]
    ELSE RecordEnd(f.vals, lineNumber, consume_line_and_trailing_comments(text, f.tk))

ReadSample(text, tk) == SampleOf(text, tk.line, ReadFields(text, tk, <<>>))

(***************************************************************************)
(* The sample lists given to buildSWC.  Line i of a list of n lines has    *)
(* the id IdOf(a, n, i); its type and parent are free, and the x of its    *)
(* point is its id modulo 2, so that a sample's point equals its parent's  *)
(* in some lists and differs in others.  A parent in 1..MaxSamples that no line    *)
(* declares is a dangling reference.                                       *)
(***************************************************************************)
Arrangements == {"ascending", "descending", "repeated", "echoed"}

\* "repeated": the last line declares the id of the first line again
IdOf(a, n, i) ==
    IF a = "descending" THEN n + 1 - i
    ELSE IF a = "repeated" /\ i = n /\ n > 1 THEN 1
    ELSE IF a = "echoed" /\ i = 1 /\ n > 1 THEN n
    ELSE i

PointOf(id) == <<id % 2, 0, 0>>

\* a Sample as readSamples stores it: diameter = 2 * radius, the radius 1
MkSample(id, type, parentId, lineNumber) ==
    [id |-> id, type |-> type, point |-> PointOf(id), diameter |-> 2 * 1,
     parentId |-> parentId, lineNumber |-> lineNumber]

ParentIds == {SWC_ROOT} \cup (1..MaxSamples)

FreeList(n, a, t, p) == [i \in 1..n |-> MkSample(IdOf(a, n, i), t[i], p[i], i)]

\* one SOMA sample without parent, followed by m neurite samples with free
\* types and parents
SomaThenNeurites(m, a, t, p) ==
    FreeList(m + 1, a, <<SECTION_SOMA>> \o t, <<SWC_ROOT>> \o p)

\* a three-point soma (center 1, children 2 and 3) whose center has any
\* parent, followed by m axon samples with free parents
NestedIds(m) == 1..(3 + m)

NestedList(m, cp, p) ==
    <<MkSample(1, SECTION_SOMA, cp, 1), MkSample(2, SECTION_SOMA, 1, 2),
      MkSample(3, SECTION_SOMA, 1, 3)>>
    \o [i \in 1..m |-> MkSample(3 + i, SECTION_AXON, p[i], 3 + i)]

\* two lines whose types are any the text can give, in and out of range
RawTypes == {0, SECTION_SOMA, SECTION_AXON, SECTION_OUT_OF_RANGE_START}

RawList(t, p) == [i \in 1..2 |-> MkSample(i, t[i], p[i], i)]

IsSampleList(ss) ==
    \/ \E n \in 0..MaxSamples, a \in Arrangements :
         \E t \in [1..n -> SectionTypes], p \in [1..n -> ParentIds] :
            ss = FreeList(n, a, t, p)
    \/ \E m \in 1..MaxExtra, a \in {"ascending", "descending"} :
         \E t \in [1..m -> NeuriteTypes], p \in [1..m -> {SWC_ROOT} \cup (1..(m + 1))] :
            ss = SomaThenNeurites(m, a, t, p)
    \/ \E m \in 1..MaxExtra :
         \E cp \in {SWC_ROOT} \cup (4..(3 + m)), p \in [1..m -> {SWC_ROOT} \cup NestedIds(m)] :
            ss = NestedList(m, cp, p)
    \/ \E t \in [1..2 -> RawTypes], p \in [1..2 -> {SWC_ROOT, 1, 2}] :
         ss = RawList(t, p)

(***************************************************************************)
(* The load as a state machine: SWCBuilder::buildProperties after          *)
(* readSamples, one action per pass of buildSWC.                           *)
(***************************************************************************)
\* a Sample that no line of the list holds
NoSample == MkSample(0, 0, SWC_ROOT, 0)
\* no read of samples[sample.id] was made
NoLookup == [read |-> "none", sample |-> NoSample]
\* what a read past the end of the vector may give
StraySamples == {MkSample(id, SECTION_SOMA, SWC_ROOT, 0) : id \in 0..MaxSamples}

TokenizerIdle == contents = <<>> /\ pos_ = 0 /\ line_ = 1

Init ==
    /\ IsSampleList(samples)
    /\ pc = "index"
    /\ index = EmptyIndex
    /\ soma = NoSoma
    /\ morph = EmptyMorph
    /\ outcome = ""
    /\ earlier = NoLookup
    /\ TokenizerIdle

\* samples[sample.id] of line 334: std::vector::operator[] does not check
\* its index.  Inside the vector it gives the element at that 0-based
\* position; past the end the behaviour is undefined: the read gives
\* whatever lies there, or the process is stopped.
vector_at(ss, i) ==
    IF i < Len(ss) THEN {[read |-> "element", sample |-> ss[i + 1]]}
    ELSE {[read |-> "out_of_bounds", sample |-> g] : g \in StraySamples}
         \cup {[read |-> "SIGSEGV", sample |-> NoSample]}

\* what the throw of ERROR_REPEATED_ID is given as the earlier sample
Thrown(ss, ix) ==
    IF ix.error = "ERROR_REPEATED_ID" THEN vector_at(ss, ix.lookup) ELSE {NoLookup}

\* how the first pass ends when it does not pass
Raised(ix, e) == IF e.read = "SIGSEGV" THEN "SIGSEGV" ELSE ix.error

\* buildSWC, lines 305-346
IndexPass ==
    /\ pc = "index"
    /\ index' = IndexSamples(samples)
    /\ earlier' \in Thrown(samples, index')
    /\ IF index'.error # ""
       THEN pc' = "failed" /\ outcome' = Raised(index', earlier')
       ELSE pc' = "soma" /\ outcome' = ""
    /\ UNCHANGED <<samples, soma, morph, contents, pos_, line_>>

\* build_soma(soma_samples)
SomaPass ==
    /\ pc = "soma"
    /\ soma' = build_soma(index)
    /\ IF soma'.error # ""
       THEN pc' = "failed" /\ outcome' = soma'.error
       ELSE pc' = "assemble" /\ outcome' = ""
    /\ UNCHANGED <<samples, index, morph, contents, pos_, line_, earlier>>

\* buildSWC, the loop over root_samples with every assembleSections call
AssemblePass ==
    /\ pc = "assemble"
    /\ morph' = AssembleRoots(index, soma)
    /\ IF morph'.error # ""
       THEN pc' = "failed" /\ outcome' = morph'.error
       ELSE pc' = "done" /\ outcome' = "OK"
    /\ UNCHANGED <<samples, index, soma, contents, pos_, line_, earlier>>

Next == IndexPass \/ SomaPass \/ AssemblePass

Spec == Init /\ [][Next]_vars

(***************************************************************************)
(* The load from the text on: readSamples, then buildSWC.  A text is a     *)
(* row of items: a number and the blank after it, a newline, the start of  *)
(* a comment, a character that is none of these.                           *)
(***************************************************************************)
Items == {<<"1", " ">>, <<"-", "1", " ">>, <<"\n">>, <<"#">>, <<"x">>}

RECURSIVE Flatten(_)
Flatten(items) == IF items = <<>> THEN <<>> ELSE Head(items) \o Flatten(Tail(items))

InitRead ==
    /\ \E n \in 0..MaxItems : \E items \in [1..n -> Items] : contents = Flatten(items)
    /\ pc = "read"
    /\ pos_ = 0
    /\ line_ = 1
    /\ samples = <<>>
    /\ index = EmptyIndex
    /\ soma = NoSoma
    /\ morph = EmptyMorph
    /\ outcome = ""
    /\ earlier = NoLookup

Cursor == [pos |-> pos_, line |-> line_]

MoveCursor(tk) == pos_' = tk.pos /\ line_' = tk.line

\* readSamples up to its while loop
ReadStart ==
    /\ pc = "read"
    /\ MoveCursor(consume_line_and_trailing_comments(contents, Cursor).tk)
    /\ pc' = "read_loop"
    /\ UNCHANGED <<samples, index, soma, morph, outcome, contents, earlier>>

\* what one turn leaves: the cursor, and the sample or the error thrown
Record(r) ==
    /\ MoveCursor(r.tk)
    /\ IF r.error # ""
       THEN pc' = "failed" /\ outcome' = r.error /\ samples' = samples
       ELSE pc' = "read_loop" /\ outcome' = "" /\ samples' = Append(samples, r.sample)

\* one turn of the while loop of readSamples
ReadRecord ==
    /\ pc = "read_loop"
    /\ ~done(contents, Cursor)
    /\ Record(ReadSample(contents, Cursor))
    /\ UNCHANGED <<index, soma, morph, contents, earlier>>

\* readSamples returns samples; buildProperties goes on to buildSWC
ReadReturn ==
    /\ pc = "read_loop"
    /\ done(contents, Cursor)
    /\ pc' = "index"
    /\ UNCHANGED <<samples, index, soma, morph, outcome, contents, pos_, line_, earlier>>

NextRead == ReadStart \/ ReadRecord \/ ReadReturn \/ IndexPass \/ SomaPass \/ AssemblePass

SpecRead == InitRead /\ [][NextRead]_vars

\* readSamples has returned its list
ReadErrors == {"EARLY_END_OF_FILE", "ERROR_LINE_NON_PARSABLE", "ERROR_NEGATIVE_ID"}
ReadAccepted == pc \notin {"read", "read_loop"} /\ outcome \notin ReadErrors

Accepted == pc = "done"
Finished == pc \in {"done", "failed"}

(***************************************************************************)
(* What the claims speak of.                                               *)
(***************************************************************************)
Sections == morph.sections

\* the line (1-based position in the list) that declares id
LineOf(id) == CHOOSE i \in DOMAIN samples : samples[i].id = id

PointsOfLines(ss, from, to) == [i \in 1..(to - from + 1) |-> ss[from + i - 1].point]

\* one SOMA sample without parent, then a chain of same-type neurite
\* samples, each the child of the line before it
IsSomaThenChain(ss) ==
    /\ Len(ss) >= 2
    /\ ss[1].type = SECTION_SOMA /\ ss[1].parentId = SWC_ROOT
    /\ ss[2].type \in NeuriteTypes
    /\ \A i \in 2..Len(ss) : ss[i].type = ss[2].type /\ ss[i].parentId = ss[i - 1].id
    /\ \A i, j \in DOMAIN ss : i # j => ss[i].id # ss[j].id

\* C1 as stated: a soma followed by a chain of k neurite samples gives one
\* section of k+1 points, the soma's point first and then the chain's points.
C1_SomaPointLeadsRootSection ==
    (Finished /\ IsSomaThenChain(samples)) =>
        /\ Accepted
        /\ Len(Sections) = 1
        /\ Sections[1].type = samples[2].type
        /\ Sections[1].points = <<samples[1].point>> \o PointsOfLines(samples, 2, Len(samples))

\* C1 as amended: a soma followed by a chain of k neurite samples gives one
\* root section of that type with exactly the k points of the chain, in chain
\* order; the soma's point is not put in front of a root section.
C1_RootSectionIsTheChain ==
    (Finished /\ IsSomaThenChain(samples)) =>
        /\ Accepted
        /\ Len(Sections) = 1
        /\ Sections[1].is_root
        /\ Sections[1].type = samples[2].type
        /\ Sections[1].points = PointsOfLines(samples, 2, Len(samples))
        /\ Len(Sections[1].diameters) = Len(samples) - 1

\* the S4 scenario: soma and three axon samples, assembled
C1_Witness ==
    /\ Accepted /\ IsSomaThenChain(samples) /\ Len(samples) = 4
    /\ samples[2].type = SECTION_AXON
    /\ samples[1].point # samples[2].point
    /\ Len(Sections) = 1

\* C2: in every accepted load the first point of a section appended to a
\* parent section equals the last point of that parent section, with or
\* without an inserted duplicate.
C2_ForkPointContinuity ==
    Accepted =>
        \A k \in DOMAIN Sections :
            ~Sections[k].is_root =>
                /\ Sections[k].parent \in 1..(k - 1)
                /\ Sections[k].points[1]
                     = Sections[Sections[k].parent].points[Len(Sections[Sections[k].parent].points)]

\* an accepted load with a child section that got the duplicate and one
\* that did not need it
C2_Witness ==
    /\ Accepted
    /\ \E k \in DOMAIN Sections :
          ~Sections[k].is_root /\ Len(Sections[k].points) = Len(Sections[k].ids) + 1
    /\ \E k \in DOMAIN Sections :
          ~Sections[k].is_root /\ Len(Sections[k].points) = Len(Sections[k].ids)

\* the list with its lines in the order f[1], f[2], ...
Reordered(ss, f) == [i \in DOMAIN ss |-> [ss[f[i]] EXCEPT !.lineNumber = i]]

Exchange(n, a, b) == [i \in 1..n |-> IF i = a THEN b ELSE IF i = b THEN a ELSE i]

Reorderings(n) ==
    IF n <= MaxSamples THEN Permutations(1..n)
    ELSE {Exchange(n, a, b) : a, b \in 1..n}

Content(sample) == <<sample.id, sample.type, sample.point, sample.diameter, sample.parentId>>

SomaLines(ss) ==
    LET somas == SelectSeq(ss, LAMBDA x : x.type = SECTION_SOMA)
    IN [i \in DOMAIN somas |-> Content(somas[i])]

\* a section with the chain of sections above it, without its place among
\* its siblings
RECURSIVE PathOf(_, _)
PathOf(secs, k) ==
    IF secs[k].parent = 0 THEN <<>>
    ELSE Append(PathOf(secs, secs[k].parent), secs[secs[k].parent].ids)

Described(secs, k) ==
    [ids |-> secs[k].ids, points |-> secs[k].points, diameters |-> secs[k].diameters,
     type |-> secs[k].type, is_root |-> secs[k].is_root, parent_id |-> secs[k].parent_id,
     path |-> PathOf(secs, k)]

SectionGraph(secs) ==
    LET ds == {Described(secs, k) : k \in DOMAIN secs}
    IN [d \in ds |-> Cardinality({k \in DOMAIN secs : Described(secs, k) = d})]

SomaResult(sm) == <<sm.type, sm.points, sm.diameters>>

SameOutcome(r1, r2) ==
    /\ (r1.outcome = "OK") <=> (r2.outcome = "OK")
    /\ r1.outcome = "OK" =>
          /\ SomaResult(r1.soma) = SomaResult(r2.soma)
          /\ SectionGraph(r1.sections) = SectionGraph(r2.sections)

ThisLoad == [outcome |-> outcome, soma |-> soma, sections |-> Sections]

\* C3 as stated: a list and any reordering of its lines are both rejected or
\* both accepted, with the same soma and the same sections up to the order
\* of siblings.
C3_AnyOrderSameOutcome ==
    Finished =>
        \A f \in Reorderings(Len(samples)) :
            SameOutcome(ThisLoad, Load(Reordered(samples, f)))

\* C3 as amended: the same, for reorderings that keep the SOMA lines in
\* their relative order (the soma shape and its points follow the order of
\* the SOMA lines).
C3_SameOutcomeWhenSomaOrderKept ==
    Finished =>
        \A f \in Reorderings(Len(samples)) :
            SomaLines(Reordered(samples, f)) = SomaLines(samples) =>
                SameOutcome(ThisLoad, Load(Reordered(samples, f)))

\* an accepted load of a list in which a child line precedes its parent
\* line, with a soma and several sections
C3_Witness ==
    /\ Accepted
    /\ \E i, j \in DOMAIN samples : i < j /\ samples[i].parentId = samples[j].id
    /\ Len(Sections) >= 2
    /\ soma.type = "SOMA_SINGLE_POINT"

\* the samples of the list that declare id
Declaring(id) == {i \in DOMAIN samples : samples[i].id = id}

IsSomaLine(i) == samples[i].type = SECTION_SOMA

\* C4: in every accepted load each SOMA sample's parent is the no-parent
\* sentinel or a SOMA sample, whatever the soma shape.
C4_SomaParentIsSoma ==
    Accepted =>
        \A i \in DOMAIN samples :
            IsSomaLine(i) =>
                \/ samples[i].parentId = SWC_ROOT
                \/ \E j \in Declaring(samples[i].parentId) : IsSomaLine(j)

\* C5: a list that passes the validator and the soma classifier is
\* assembled in finitely many calls (the load returns), and no sample is put
\* into more than one section.
C5_AssemblyEndsEachSampleOnce ==
    (Finished /\ index.error = "" /\ soma.error = "") =>
        /\ Accepted
        /\ \A k, l \in DOMAIN Sections :
              k # l => Range(Sections[k].ids) \cap Range(Sections[l].ids) = {}

\* the chain of same-type samples that starts at line i: the next sample
\* is the only child, of the same type
OnlyChildren(i) == {j \in DOMAIN samples : samples[j].parentId = samples[i].id}

RECURSIVE ChainFrom(_, _)
ChainFrom(i, seen) ==
    IF /\ Cardinality(OnlyChildren(i)) = 1
       /\ \A j \in OnlyChildren(i) : samples[j].type = samples[i].type /\ j \notin seen
    THEN <<samples[i].id>> \o ChainFrom(CHOOSE j \in OnlyChildren(i) : TRUE, seen \cup {i})
    ELSE <<samples[i].id>>

\* line i starts a maximal chain of non-SOMA samples: nothing extends the
\* chain upwards
IsChainHead(i) ==
    /\ samples[i].type # SECTION_SOMA
    /\ \/ samples[i].parentId = SWC_ROOT
       \/ \E j \in Declaring(samples[i].parentId) :
             \/ samples[j].type # samples[i].type
             \/ Cardinality(OnlyChildren(j)) # 1

\* C6: in every accepted load each maximal chain of same-type non-SOMA
\* samples is one section holding the points of its samples in chain order:
\* never split, never left out.
C6_EachChainIsOneSection ==
    Accepted =>
        \A i \in DOMAIN samples :
            IsChainHead(i) =>
                /\ Cardinality({k \in DOMAIN Sections :
                                   Sections[k].ids = ChainFrom(i, {})}) = 1
                /\ \A k \in DOMAIN Sections :
                      Range(Sections[k].ids) \cap Range(ChainFrom(i, {})) # {}
                          => Sections[k].ids = ChainFrom(i, {})

Dangling(i) == samples[i].parentId # SWC_ROOT /\ Declaring(samples[i].parentId) = {}

\* a fatal condition of the first pass, which runs before the pass for
\* missing parents
FailsFirstPass ==
    \E i \in DOMAIN samples :
        \/ samples[i].parentId = samples[i].id
        \/ samples[i].type <= 0 \/ samples[i].type >= SECTION_OUT_OF_RANGE_START
        \/ \E j \in DOMAIN samples : j # i /\ samples[j].id = samples[i].id

\* C7: a list with a parent_id that no sample declares is never accepted
\* and, unless the first pass fails before, fails with ERROR_MISSING_PARENT;
\* a list whose parent_ids are all declared, earlier or later, does not fail
\* with ERROR_MISSING_PARENT.
C7_DanglingParentIsFatal ==
    Finished =>
        /\ (\E i \in DOMAIN samples : Dangling(i)) =>
              /\ ~Accepted
              /\ ~FailsFirstPass => outcome = "ERROR_MISSING_PARENT"
        /\ (\A i \in DOMAIN samples : ~Dangling(i)) => outcome # "ERROR_MISSING_PARENT"

\* a list with a dangling parent on its first line and a sound line after
\* it, failed with ERROR_MISSING_PARENT
C7_Witness ==
    /\ pc = "failed" /\ outcome = "ERROR_MISSING_PARENT"
    /\ Len(samples) >= 2
    /\ Dangling(1)
    /\ \A i \in 2..Len(samples) : ~Dangling(i)

SomaChildren(i) == {j \in DOMAIN samples : IsSomaLine(j) /\ samples[j].parentId = samples[i].id}

\* the SOMA lines reached from line i by going from SOMA parent to SOMA child
RECURSIVE SomaReach(_, _)
SomaReach(front, seen) ==
    IF front \subseteq seen THEN seen
    ELSE SomaReach(UNION {SomaChildren(i) : i \in front}, seen \cup front)

\* C8: a load accepted with soma shape CYLINDERS has exactly one SOMA
\* sample without parent, and the SOMA samples are one linear chain from it.
C8_CylindersIsOneChain ==
    (Accepted /\ soma.type = "SOMA_CYLINDERS") =>
        /\ Cardinality({i \in DOMAIN samples :
                           IsSomaLine(i) /\ samples[i].parentId = SWC_ROOT}) = 1
        /\ \A i \in DOMAIN samples : IsSomaLine(i) =>
              /\ Cardinality(SomaChildren(i)) <= 1
              /\ \/ samples[i].parentId = SWC_ROOT
                 \/ \E j \in Declaring(samples[i].parentId) : IsSomaLine(j)
        /\ \A r \in DOMAIN samples :
              (IsSomaLine(r) /\ samples[r].parentId = SWC_ROOT) =>
                  SomaReach({r}, {}) = {i \in DOMAIN samples : IsSomaLine(i)}

\* sections k and l hang under the same sample: the same parent section,
\* or the same soma root sample
Siblings(k, l) ==
    /\ Sections[k].is_root = Sections[l].is_root
    /\ Sections[k].parent = Sections[l].parent
    /\ Sections[k].parent_id = Sections[l].parent_id
    /\ Sections[k].parent_id # SWC_ROOT

\* C9: in every accepted load sibling sections are appended in the order
\* in which the lines of their first samples appear in the list.
C9_SiblingsInSourceOrder ==
    Accepted =>
        \A k, l \in DOMAIN Sections :
            (k < l /\ Siblings(k, l)) =>
                LineOf(Sections[k].ids[1]) < LineOf(Sections[l].ids[1])

\* an accepted load with a soma, a root section and two sections under it,
\* the ids not in the order of the lines
C9_Witness ==
    /\ Accepted
    /\ soma.type = "SOMA_SINGLE_POINT"
    /\ \E k, l \in DOMAIN Sections :
          k < l /\ Siblings(k, l) /\ ~Sections[k].is_root
          /\ Sections[k].ids[1] > Sections[l].ids[1]

\* the lines of a text: what stands between its newlines
RECURSIVE TextLines(_, _)
TextLines(text, cur) ==
    IF text = <<>> THEN <<cur>>
    ELSE IF Head(text) = "\n" THEN <<cur>> \o TextLines(Tail(text), <<>>)
    ELSE TextLines(Tail(text), Append(cur, Head(text)))

\* a line without its comment
RECURSIVE BeforeComment(_)
BeforeComment(ln) ==
    IF ln = <<>> \/ Head(ln) = "#" THEN <<>> ELSE <<Head(ln)>> \o BeforeComment(Tail(ln))

\* the fields of a line: its runs of characters that are not whitespace
RECURSIVE Fields(_, _)
Fields(ln, cur) ==
    IF ln = <<>> THEN (IF cur = <<>> THEN <<>> ELSE <<cur>>)
    ELSE IF Head(ln) \in Whitespace
    THEN (IF cur = <<>> THEN <<>> ELSE <<cur>>) \o Fields(Tail(ln), <<>>)
    ELSE Fields(Tail(ln), Append(cur, Head(ln)))

IsNumeric(field) ==
    \/ field # <<>> /\ \A i \in DOMAIN field : field[i] \in Digits
    \/ Len(field) > 1 /\ field[1] \in {"-", "+"}
       /\ \A i \in 2..Len(field) : field[i] \in Digits

LineFields(k) == Fields(BeforeComment(TextLines(contents, <<>>)[k]), <<>>)

\* the numbers of the lines that are neither empty nor a comment
RecordLines == {k \in DOMAIN TextLines(contents, <<>>) : LineFields(k) # <<>>}

\* C10: when readSamples accepts a text, its list has one Sample for each
\* line that is neither empty nor a comment, in the order of the lines, and
\* each such line holds exactly seven numeric fields.
C10_OneSamplePerRecordLine ==
    ReadAccepted =>
        /\ Len(samples) = Cardinality(RecordLines)
        /\ \A k \in RecordLines :
              /\ Len(LineFields(k)) = FieldsPerSample
              /\ \A i \in DOMAIN LineFields(k) : IsNumeric(LineFields(k)[i])
        /\ \A i \in DOMAIN samples :
              /\ samples[i].lineNumber \in RecordLines
              /\ \A j \in DOMAIN samples : i < j => samples[i].lineNumber < samples[j].lineNumber

\* C11: when the first pass meets an id that an earlier line declared, the
\* load fails with ERROR_REPEATED_ID, the read of samples[sample.id] stays
\* inside the sample list, and the sample it gives has the repeated id.
C11_RepeatedIdLookupInBounds ==
    (pc = "failed" /\ index.error = "ERROR_REPEATED_ID") =>
        /\ outcome = "ERROR_REPEATED_ID"
        /\ earlier.read = "element"
        /\ earlier.sample.id = index.lookup

====
